---- MODULE Spec2Model ----
(***************************************************************************)
(* Model of the tailnet key authority update builder (tka/builder.go):     *)
(* an Authority with a committed head and State, and one UpdateBuilder     *)
(* session that snapshots the Authority, speculates edits as a chain of    *)
(* AUMs and finalizes them under an optimistic-concurrency check.          *)
(***************************************************************************)
EXTENDS Integers, Sequences, FiniteSets, TLC

\* ------------------------------------------------------------------ bounds
\* Longest AUM sequence one builder session accumulates.
MaxOut == 3
\* Number of external commits that advance the Authority.
MaxCommits == 1

\* ------------------------------------------------------------ input domains
KeyIDs == {"A", "B"}
\* An optional value (a Go pointer or a nil-able map): present or not.
Some(v) == [present |-> TRUE, val |-> v]
NoVotes == [present |-> FALSE, val |-> 0]
NoMeta == [present |-> FALSE, val |-> {}]

\* A Key; its metadata map is the set of its <<name, value>> pairs.
MkKey(id, v, m) == [id |-> id, votes |-> v, meta |-> m]
NoKey == [present |-> FALSE, val |-> MkKey("", 0, {})]
\* The keys AddKey is called with.
NewKeys == {MkKey("B", 1, {<<"role", "admin">>}), MkKey("A", 1, {})}
\* The vote counts SetKeyVote is called with.
NewVotes == {3}
\* The maps SetKeyMeta is called with: a nil map, or a map.
NewMetas == {NoMeta, Some({<<"role", "ops">>})}

\* Errors the calls return; "nil" is success.
ErrNil == "nil"

\* ------------------------------------------------------------- AUM, hashing
\* The zero AUM of a kind; the edit calls fill in the fields of their kind.
BlankAUM(kind) ==
    [kind |-> kind, prevHash |-> <<>>, key |-> NoKey, keyID |-> "",
     votes |-> NoVotes, meta |-> NoMeta, sigs |-> <<>>]

\* Hash(): content hash of the full AUM, signatures included (collision-free).
Hash(a) == <<"Hash", a>>

\* SigHash(): hash of the AUM's content without its signatures.
SigHash(a) == <<"SigHash", [a EXCEPT !.sigs = <<>>]>>

\* Parent(): the declared parent hash and whether there is one.
Parent(a) ==
    IF Len(a.prevHash) = 0
    THEN [ok |-> FALSE, hash |-> Hash(BlankAUM("none"))]
    ELSE [ok |-> TRUE, hash |-> a.prevHash[1]]

\* StaticValidate(): shape checks that need no State.
StaticValidate(a) ==
    /\ Len(a.prevHash) = 1
    /\ a.kind = "AddKey" => a.key.present
    /\ a.kind \in {"RemoveKey", "UpdateKey"} => a.keyID # ""
    /\ a.kind = "UpdateKey" => (a.votes.present \/ a.meta.present)

\* ---------------------------------------------------------------- State
\* A State is the set of its Key entries.
HasKey(s, id) == \E k \in s : k.id = id

\* GetKey(): err is "nil" and key the entry, or err is "NotFound".
GetKey(s, id) ==
    IF HasKey(s, id)
    THEN [err |-> ErrNil, key |-> CHOOSE k \in s : k.id = id]
    ELSE [err |-> "NotFound", key |-> MkKey("", 0, {})]

UpdatedKey(k, a) ==
    [k EXCEPT !.votes = IF a.votes.present THEN a.votes.val ELSE @,
              !.meta = IF a.meta.present THEN a.meta.val ELSE @]

\* applyVerifiedAUM(): the State after the AUM, or the error; s is not changed.
applyVerifiedAUM(s, a) ==
    CASE a.kind = "AddKey" ->
           IF HasKey(s, a.key.val.id)
           THEN [err |-> "AlreadyExists", state |-> {}]
           ELSE [err |-> ErrNil, state |-> s \cup {a.key.val}]
      [] a.kind = "RemoveKey" ->
           IF ~HasKey(s, a.keyID)
           THEN [err |-> "NotFound", state |-> {}]
           ELSE [err |-> ErrNil, state |-> {k \in s : k.id # a.keyID}]
      [] a.kind = "UpdateKey" ->
           IF ~HasKey(s, a.keyID)
           THEN [err |-> "NotFound", state |-> {}]
           ELSE [err |-> ErrNil,
                 state |-> {IF k.id = a.keyID THEN UpdatedKey(k, a) ELSE k : k \in s}]

\* Folding a sequence of AUMs, in order, onto State s at head h, as a replica
\* does: err is the first error (later AUMs are not applied), state and head
\* the result.
RECURSIVE FoldAUMs(_, _, _)
FoldAUMs(aums, s, h) ==
    IF Len(aums) = 0
    THEN [err |-> ErrNil, state |-> s, head |-> h]
    ELSE LET ap == applyVerifiedAUM(s, aums[1])
         IN IF Parent(aums[1]) # [ok |-> TRUE, hash |-> h]
            THEN [err |-> "BadParent", state |-> s, head |-> h]
            ELSE IF ap.err # ErrNil
            THEN [err |-> ap.err, state |-> s, head |-> h]
            ELSE FoldAUMs(Tail(aums), ap.state, Hash(aums[1]))

\* ---------------------------------------------------------------- Signer
\* SignAUM() of the one configured signer, when it does not fail.
SignAUM(sigHash) == <<[keyID |-> "signer", sig |-> sigHash]>>

\* ------------------------------------------------------------------ state
VARIABLES
    head,      \* Authority: hash of the last committed AUM
    astate,    \* Authority: the State at head
    history,   \* every committed point, <<head, State>>, oldest first
    pc,        \* the session: "idle", "snap" (inside NewUpdater), "open", "finalized"
    todo,      \* NewUpdater: the Authority fields it has still to read
    signer,    \* builder: "nil" or "signer"
    bstate,    \* builder: speculative State
    parent,    \* builder: hash the next AUM declares as its parent
    out,       \* builder: the AUMs produced, in order
    err,       \* the last call's returned error
    ret,       \* the AUM list the last Finalize returned
    base,      \* the head NewUpdater read
    nOk,       \* successful edit calls of the session
    failed     \* some edit call of the session returned an error

\* The health registry (health/health.go): the package-level variables that
\* mu guards, and what the last operation on the registry did.
VARIABLES
    sysErr,          \* map Subsystem -> error; a subsystem never set has no entry
    watchers,        \* the registered watch handles (each maps to its callback)
    timer,           \* TRUE when the package's self-check timer is non-nil
    handles,         \* number of watch handles RegisterWatcher has issued
    timerFired,      \* an expired timer's timerSelfCheck has still to run
    anyInterfaceUp,
    ipnState,
    ipnWantRunning,
    connErr,         \* what the login, map poll, DERP and UDP checks find
    recvMissing,     \* names of the receive funcs marked missing
    ipnEverSet,      \* SetIPNState has been called with a non-empty state
    started,         \* callbacks the last operation started: <<handle, key, err>>
    trace            \* setLocked calls the last operation made:
                     \* <<key, err, status of key at the call>>

authVars == <<head, astate, history>>
tkaVars == <<head, astate, history, pc, todo, signer, bstate, parent, out,
             err, ret, base, nOk, failed>>
healthVars == <<sysErr, watchers, timer, handles, timerFired, anyInterfaceUp,
                ipnState, ipnWantRunning, connErr, recvMissing, ipnEverSet,
                started, trace>>
vars == <<tkaVars, healthVars>>

\* The nil error. An error is the sequence of its messages, each a pair
\* <<origin, text>>; multierr.New of no errors is nil.
NilErr == <<>>

\* The empty map.
EmptyMap == [k \in {} |-> NilErr]

\* The package's variables as declared: everything zero but anyInterfaceUp.
HealthInit ==
    /\ sysErr = EmptyMap
    /\ watchers = {}
    /\ timer = FALSE
    /\ handles = 0
    /\ timerFired = FALSE
    /\ anyInterfaceUp = TRUE
    /\ ipnState = ""
    /\ ipnWantRunning = FALSE
    /\ connErr = "not in map poll"
    /\ recvMissing = {}
    /\ ipnEverSet = FALSE
    /\ started = <<>>
    /\ trace = <<>>

GenesisAUM ==
    [BlankAUM("AddKey") EXCEPT !.key = Some(MkKey("A", 2, {}))]

\* The zero hash: what a builder field holds before NewUpdater has set it.
NoHash == Hash(BlankAUM("none"))

Init ==
    /\ head = Hash(GenesisAUM)
    /\ astate = {MkKey("A", 2, {})}
    /\ history = <<[head |-> Hash(GenesisAUM), state |-> {MkKey("A", 2, {})}]>>
    /\ pc = "idle"
    /\ todo = {}
    /\ signer = "nil"
    /\ bstate = {}
    /\ parent = NoHash
    /\ out = <<>>
    /\ err = ErrNil
    /\ ret = <<>>
    /\ base = NoHash
    /\ nOk = 0
    /\ failed = FALSE
    /\ HealthInit

\* ------------------------------------------------------------ Authority
\* Head(): the committed head.
AuthorityHead == head

\* The AUMs other writers commit to the Authority while a session is open.
ExtAUMs ==
    {[BlankAUM("AddKey") EXCEPT !.key = Some(MkKey("B", 3, {}))],
     [BlankAUM("UpdateKey") EXCEPT !.keyID = "A", !.votes = Some(1)]}

\* An external commit: the Authority folds one verified AUM into its State
\* with applyVerifiedAUM and advances its head to that AUM's hash.
Commit(e) ==
    LET a == [e EXCEPT !.prevHash = <<head>>]
        ap == applyVerifiedAUM(astate, a)
    IN /\ Len(history) <= MaxCommits
       /\ ap.err = ErrNil
       /\ head' = Hash(a)
       /\ astate' = ap.state
       /\ history' = Append(history, [head |-> Hash(a), state |-> ap.state])
       /\ UNCHANGED <<pc, todo, signer, bstate, parent, out, err, ret, base, nOk, failed>>
       /\ UNCHANGED healthVars

\* ------------------------------------------------------------ NewUpdater
\* NewUpdater reads a.Head() and a.state without holding any lock, in an
\* order the language leaves open; a commit may run between the two reads.
\* This is the first read, of the field named by first.
NewUpdater(sg, first) ==
    /\ pc \in {"idle", "finalized"}
    /\ pc' = "snap"
    /\ todo' = {"head", "state"} \ {first}
    /\ signer' = sg
    /\ parent' = IF first = "head" THEN AuthorityHead ELSE NoHash
    /\ base' = IF first = "head" THEN AuthorityHead ELSE NoHash
    /\ bstate' = IF first = "state" THEN astate ELSE {}
    /\ out' = <<>>
    /\ err' = ErrNil
    /\ ret' = <<>>
    /\ nOk' = 0
    /\ failed' = FALSE
    /\ UNCHANGED authVars
    /\ UNCHANGED healthVars

\* The second read of NewUpdater; the builder is returned to the caller.
NewUpdaterReturn ==
    /\ pc = "snap"
    /\ pc' = "open"
    /\ todo' = {}
    /\ parent' = IF "head" \in todo THEN AuthorityHead ELSE parent
    /\ base' = IF "head" \in todo THEN AuthorityHead ELSE base
    /\ bstate' = IF "state" \in todo THEN astate ELSE bstate
    /\ UNCHANGED <<head, astate, history, signer, out, err, ret, nOk, failed>>
    /\ UNCHANGED healthVars

\* ------------------------------------------------------------ mkUpdate
\* What an edit call leaves in the builder: the error it returns and the
\* builder's state, parent and out after it.

\* Fault: the candidate is appended to out before it is checked.
RejectedPartial(e, update) ==
    [err |-> e, state |-> bstate, parent |-> parent, out |-> Append(out, update)]

\* A return with an error, taken before any builder field is assigned.
Rejected(e, update) ==
    [err |-> e, state |-> bstate, parent |-> parent, out |-> out]

\* The three assignments that end a successful mkUpdate.
Accepted(state, update) ==
    [err |-> ErrNil, state |-> state, parent |-> Hash(update),
     out |-> Append(out, update)]

\* Fault: every AUM is linked to the Authority's head, not to b.parent.
WithParentHead(update) == [update EXCEPT !.prevHash = <<AuthorityHead>>]

\* update.PrevAUMHash = copy of b.parent
WithParent(update) == [update EXCEPT !.prevHash = <<parent>>]

\* update.Signatures = append(update.Signatures, sigs...)
WithSignatures(update, sigs) == [update EXCEPT !.sigs = @ \o sigs]

\* Fault: the Signer is given the SigHash taken before PrevAUMHash is set.
mkUpdateSignsUnlinked(update, signs) ==
    LET linked == WithParent(update)
        signedU == IF signer # "nil"
                   THEN WithSignatures(linked, SignAUM(SigHash(update)))
                   ELSE linked
        ap == applyVerifiedAUM(bstate, signedU)
    IN IF signer # "nil" /\ signs = "fail" THEN Rejected("SigningFailed", linked)
       ELSE IF ~StaticValidate(signedU) THEN Rejected("StructuralInvalid", signedU)
       ELSE IF ap.err # ErrNil THEN Rejected("ApplyConflict", signedU)
       ELSE Accepted(ap.state, signedU)

\* Fault: the update is applied without StaticValidate.
mkUpdateNoValidate(update, signs) ==
    LET linked == WithParent(update)
        signedU == IF signer # "nil"
                   THEN WithSignatures(linked, SignAUM(SigHash(linked)))
                   ELSE linked
        ap == applyVerifiedAUM(bstate, signedU)
    IN IF signer # "nil" /\ signs = "fail" THEN Rejected("SigningFailed", linked)
       ELSE IF ap.err # ErrNil THEN Rejected("ApplyConflict", signedU)
       ELSE Accepted(ap.state, signedU)

\* mkUpdate(update); signs says whether the Signer, if one is configured,
\* returns signatures ("ok") or an error ("fail").
mkUpdate(update, signs) ==
    LET linked == WithParent(update)
        signedU == IF signer # "nil"
                   THEN WithSignatures(linked, SignAUM(SigHash(linked)))
                   ELSE linked
        ap == applyVerifiedAUM(bstate, signedU)
    IN IF signer # "nil" /\ signs = "fail" THEN Rejected("SigningFailed", linked)
       ELSE IF ~StaticValidate(signedU) THEN Rejected("StructuralInvalid", signedU)
       ELSE IF ap.err # ErrNil THEN Rejected("ApplyConflict", signedU)
       ELSE Accepted(ap.state, signedU)

\* Fault: the builder's State shares the Authority's, so storing the
\* speculative State overwrites the committed one.
ReturnAliased(r) ==
    /\ bstate' = r.state
    /\ astate' = IF r.err = ErrNil THEN r.state ELSE astate
    /\ parent' = r.parent
    /\ out' = r.out
    /\ err' = r.err
    /\ nOk' = IF r.err = ErrNil THEN nOk + 1 ELSE nOk
    /\ failed' = (failed \/ r.err # ErrNil)
    /\ UNCHANGED <<head, history, pc, todo, signer, ret, base>>
    /\ UNCHANGED healthVars

\* The call returns to its caller: the builder holds what the call left.
Return(r) ==
    /\ bstate' = r.state
    /\ parent' = r.parent
    /\ out' = r.out
    /\ err' = r.err
    /\ nOk' = IF r.err = ErrNil THEN nOk + 1 ELSE nOk
    /\ failed' = (failed \/ r.err # ErrNil)
    /\ UNCHANGED <<head, astate, history, pc, todo, signer, ret, base>>
    /\ UNCHANGED healthVars

\* The builder accepts edit calls: it is open and out has room.
CanEdit == pc = "open" /\ Len(out) < MaxOut

\* -------------------------------------------------------- the edit calls
\* Fault: the AUM carries the key without its metadata.
AddKeyAUMNoMeta(key) ==
    [BlankAUM("AddKey") EXCEPT !.key = Some([key EXCEPT !.meta = {}])]

AddKeyAUM(key) == [BlankAUM("AddKey") EXCEPT !.key = Some(key)]

\* Fault: AddKey without its existence pre-check.
AddKeyResultNoPrecheck(key, signs) == mkUpdate(AddKeyAUM(key), signs)

AddKeyResult(key, signs) ==
    IF GetKey(bstate, key.id).err = ErrNil
    THEN Rejected("AlreadyExists", AddKeyAUM(key))
    ELSE mkUpdate(AddKeyAUM(key), signs)

AddKey(key, signs) == CanEdit /\ Return(AddKeyResult(key, signs))

RemoveKeyAUM(keyID) == [BlankAUM("RemoveKey") EXCEPT !.keyID = keyID]

\* Fault: RemoveKey without its existence pre-check.
RemoveKeyResultNoPrecheck(keyID, signs) == mkUpdate(RemoveKeyAUM(keyID), signs)

RemoveKeyResult(keyID, signs) ==
    IF GetKey(bstate, keyID).err # ErrNil
    THEN Rejected("NotFound", RemoveKeyAUM(keyID))
    ELSE mkUpdate(RemoveKeyAUM(keyID), signs)

RemoveKey(keyID, signs) == CanEdit /\ Return(RemoveKeyResult(keyID, signs))

\* Fault: the vote update also carries an empty metadata map.
SetKeyVoteAUMClearsMeta(keyID, votes) ==
    [BlankAUM("UpdateKey") EXCEPT !.keyID = keyID, !.votes = Some(votes),
                                  !.meta = Some({})]

SetKeyVoteAUM(keyID, votes) ==
    [BlankAUM("UpdateKey") EXCEPT !.keyID = keyID, !.votes = Some(votes)]

SetKeyVoteResult(keyID, votes, signs) ==
    IF GetKey(bstate, keyID).err # ErrNil
    THEN Rejected("NotFound", SetKeyVoteAUM(keyID, votes))
    ELSE mkUpdate(SetKeyVoteAUM(keyID, votes), signs)

SetKeyVote(keyID, votes, signs) ==
    CanEdit /\ Return(SetKeyVoteResult(keyID, votes, signs))

SetKeyMetaAUM(keyID, meta) ==
    [BlankAUM("UpdateKey") EXCEPT !.keyID = keyID, !.meta = meta]

SetKeyMetaResult(keyID, meta, signs) ==
    IF GetKey(bstate, keyID).err # ErrNil
    THEN Rejected("NotFound", SetKeyMetaAUM(keyID, meta))
    ELSE mkUpdate(SetKeyMetaAUM(keyID, meta), signs)

SetKeyMeta(keyID, meta, signs) ==
    CanEdit /\ Return(SetKeyMetaResult(keyID, meta, signs))

\* ------------------------------------------------------------- Finalize
\* Fault: Finalize compares the first AUM's parent with the head the
\* session started from, not with the Authority's current head.
FinalizeResultStale ==
    IF Len(out) > 0 /\ Parent(out[1]).hash # base
    THEN [err |-> "Conflict", aums |-> <<>>]
    ELSE [err |-> ErrNil, aums |-> out]

\* What Finalize returns: the error and the AUM list.
FinalizeResult ==
    IF Len(out) > 0 /\ Parent(out[1]).hash # AuthorityHead
    THEN [err |-> "Conflict", aums |-> <<>>]
    ELSE [err |-> ErrNil, aums |-> out]

Finalize ==
    /\ pc = "open"
    /\ pc' = "finalized"
    /\ err' = FinalizeResult.err
    /\ ret' = FinalizeResult.aums
    /\ UNCHANGED <<head, astate, history, todo, signer, bstate, parent, out,
                   base, nOk, failed>>
    /\ UNCHANGED healthVars

\* ----------------------------------------------------------------- Next
SignOutcomes == {"ok", "fail"}

Next ==
    \/ \E e \in ExtAUMs : Commit(e)
    \/ \E sg \in {"nil", "signer"}, first \in {"head", "state"} : NewUpdater(sg, first)
    \/ NewUpdaterReturn
    \/ \E k \in NewKeys, s \in SignOutcomes : AddKey(k, s)
    \/ \E id \in KeyIDs, s \in SignOutcomes : RemoveKey(id, s)
    \/ \E id \in KeyIDs, v \in NewVotes, s \in SignOutcomes : SetKeyVote(id, v, s)
    \/ \E id \in KeyIDs, m \in NewMetas, s \in SignOutcomes : SetKeyMeta(id, m, s)
    \/ Finalize

Spec == Init /\ [][Next]_vars

\* ------------------------------------------------------------ properties
\* A step that is a call of one of the four edit operations.
EditCall ==
    \/ \E k \in NewKeys, s \in SignOutcomes : AddKey(k, s)
    \/ \E id \in KeyIDs, s \in SignOutcomes : RemoveKey(id, s)
    \/ \E id \in KeyIDs, v \in NewVotes, s \in SignOutcomes : SetKeyVote(id, v, s)
    \/ \E id \in KeyIDs, m \in NewMetas, s \in SignOutcomes : SetKeyMeta(id, m, s)

\* A step of the builder's own operations.
BuilderCall ==
    \/ \E sg \in {"nil", "signer"}, first \in {"head", "state"} : NewUpdater(sg, first)
    \/ NewUpdaterReturn
    \/ EditCall
    \/ Finalize

\* A builder exists and NewUpdater has returned it.
Built == pc \in {"open", "finalized"}

\* No two entries of a State have the same key id.
UniqueIDs(s) == \A k1 \in s, k2 \in s : k1.id = k2.id => k1 = k2

\* s without its entry for id.
Others(s, id) == {k \in s : k.id # id}

\* C1: an edit call that returns an error, whichever check raised it, leaves
\* the builder's speculative state, parent hash and out as they were.
C1_FailedEditLeavesBuilder ==
    [][(EditCall /\ err' # ErrNil) => UNCHANGED <<bstate, parent, out>>]_vars

\* The Signer failed on the second edit call; out holds the first AUM only.
C1_Witness ==
    /\ pc = "open"
    /\ err = "SigningFailed"
    /\ nOk = 1
    /\ Len(out) = 1

\* C2 as stated: whatever edit calls were made, if the head advanced after
\* NewUpdater read it, Finalize returns a conflict error and no AUMs.
C2_ConflictWheneverHeadAdvanced ==
    [][(Finalize /\ head # base) => (err' = "Conflict" /\ ret' = <<>>)]_vars

\* C2 amended: if the builder produced at least one AUM and the head advanced
\* after NewUpdater read it, Finalize returns a conflict error and no AUMs.
C2_ConflictWhenHeadAdvancedAndOutNonEmpty ==
    [][(Finalize /\ head # base /\ Len(out) > 0)
          => (err' = "Conflict" /\ ret' = <<>>)]_vars

\* Finalize found the head moved under a session that had produced AUMs.
C2_Witness ==
    /\ pc = "finalized"
    /\ err = "Conflict"
    /\ Len(out) > 0
    /\ ret = <<>>

\* C3: the AUMs in out form a chain from the head NewUpdater read: the first
\* declares that head as its parent, every later one declares the hash of
\* the one before it, and the builder's parent is the hash of the last AUM
\* (the head NewUpdater read while out is empty).
C3_ChainIntegrity ==
    Built =>
        /\ Len(out) > 0 => Parent(out[1]) = [ok |-> TRUE, hash |-> base]
        /\ \A i \in 2..Len(out) :
               Parent(out[i]) = [ok |-> TRUE, hash |-> Hash(out[i - 1])]
        /\ parent = IF Len(out) = 0 THEN base ELSE Hash(out[Len(out)])

\* A session that has chained three AUMs.
C3_Witness == pc = "open" /\ Len(out) >= 3

\* C4 as stated: the builder NewUpdater returns holds a parent hash and a
\* State that belong to one committed point of the Authority.
C4_SnapshotIsOneCommittedPoint ==
    (pc = "open" /\ nOk = 0) =>
        \E i \in 1..Len(history) : history[i] = [head |-> parent, state |-> bstate]

\* C5: no builder operation changes the Authority's committed head or State.
C5_BuilderLeavesAuthority ==
    [][BuilderCall => UNCHANGED <<head, astate>>]_vars

\* A finalized session whose speculative State differs from the committed one.
C5_Witness ==
    /\ pc = "finalized"
    /\ Len(ret) > 0
    /\ head = base
    /\ bstate # astate

\* C6 as stated: once an edit call of the session failed, no later edit call
\* appends an AUM and Finalize returns no AUMs.
C6_FailFast ==
    [][(failed /\ pc = "open" /\ pc' # "snap") => (out' = out /\ ret' = <<>>)]_vars

\* C6 amended: a failed edit call appends nothing but does not end the
\* session: out holds exactly the AUMs of the successful edit calls, and a
\* later Finalize returns either nothing (conflict) or all of out.
C6_FailedCallsAddNothing ==
    (failed /\ Built) =>
        /\ Len(out) = nOk
        /\ pc = "finalized" =>
               \/ err = "Conflict" /\ ret = <<>>
               \/ err = ErrNil /\ ret = out

\* A session with a failed edit call whose Finalize returned AUMs.
C6_Witness ==
    /\ failed
    /\ pc = "finalized"
    /\ err = ErrNil
    /\ Len(ret) >= 2

\* C7: Finalize on a builder with at least one AUM fails exactly when the
\* first AUM's parent differs from the Authority's current head; when the
\* head is still the session's base it returns, without error, all of out in
\* production order, one AUM per successful edit call.
C7_FinalizeReturnsOut ==
    [][(Finalize /\ Len(out) > 0) =>
          /\ (err' # ErrNil) <=> (Parent(out[1]).hash # head)
          /\ head = base => err' = ErrNil
          /\ err' = ErrNil => (ret' = out /\ Len(ret') = nOk)
          /\ err' # ErrNil => ret' = <<>>]_vars

\* From {A:2}: AddKey(B), SetKeyVote(B,3), RemoveKey(A), then Finalize
\* returns the three AUMs and the speculative state is {B:3}.
C7_Witness ==
    /\ pc = "finalized"
    /\ err = ErrNil
    /\ Len(ret) = 3
    /\ <<ret[1].kind, ret[2].kind, ret[3].kind>> = <<"AddKey", "UpdateKey", "RemoveKey">>
    /\ history[1].head = base
    /\ bstate = {MkKey("B", 3, {<<"role", "admin">>})}

\* C8: a successful AddKey(k) leaves a speculative state in which GetKey(k.id)
\* returns a key equal to k, and every other key is as before.
C8_AddKeyThenGetKey ==
    [][\A k \in NewKeys, s \in SignOutcomes :
          (AddKey(k, s) /\ err' = ErrNil) =>
              /\ ~HasKey(bstate, k.id)
              /\ GetKey(bstate', k.id) = [err |-> ErrNil, key |-> k]
              /\ Others(bstate', k.id) = bstate]_vars

\* AddKey of a key with metadata succeeded.
C8_Witness ==
    /\ pc = "open"
    /\ err = ErrNil
    /\ Len(out) > 0
    /\ out[Len(out)].kind = "AddKey"
    /\ out[Len(out)].key.val.meta # {}

\* C9: AddKey with an id already in the speculative state fails with the
\* already-exists error and appends no AUM; the speculative state never holds
\* two entries for one key id.
C9_AddKeyExisting ==
    [][/\ \A k \in NewKeys, s \in SignOutcomes :
              (AddKey(k, s) /\ HasKey(bstate, k.id)) =>
                  (err' = "AlreadyExists" /\ out' = out /\ bstate' = bstate)
       /\ UniqueIDs(bstate')]_vars

\* AddKey was refused for an id added earlier in the session.
C9_Witness ==
    /\ pc = "open"
    /\ err = "AlreadyExists"
    /\ Cardinality(bstate) = 2
    /\ Len(out) > 0

\* C10 as stated: RemoveKey(id) on an absent id fails with not-found and
\* leaves the State unchanged; on a present id it succeeds, the id is gone
\* and every other key is unchanged.
C10_RemoveKey ==
    [][\A id \in KeyIDs, s \in SignOutcomes :
          RemoveKey(id, s) =>
              IF ~HasKey(bstate, id)
              THEN err' = "NotFound" /\ bstate' = bstate
              ELSE /\ err' = ErrNil
                   /\ ~HasKey(bstate', id)
                   /\ Others(bstate', id) = Others(bstate, id)]_vars

\* C10 amended: as stated, but on a present id RemoveKey succeeds provided no
\* Signer is configured or the Signer returns signatures; when the Signer
\* fails, RemoveKey returns the signing error and leaves the State unchanged.
C10_RemoveKeyUnlessSignerFails ==
    [][\A id \in KeyIDs, s \in SignOutcomes :
          RemoveKey(id, s) =>
              IF ~HasKey(bstate, id)
              THEN err' = "NotFound" /\ bstate' = bstate
              ELSE IF signer # "nil" /\ s = "fail"
              THEN err' = "SigningFailed" /\ bstate' = bstate
              ELSE /\ err' = ErrNil
                   /\ ~HasKey(bstate', id)
                   /\ Others(bstate', id) = Others(bstate, id)]_vars

\* A signed RemoveKey of a present key succeeded and left the other key.
C10_Witness ==
    /\ pc = "open"
    /\ signer = "signer"
    /\ err = ErrNil
    /\ Len(out) > 0
    /\ out[Len(out)].kind = "RemoveKey"
    /\ Cardinality(bstate) = 1

StateAt(h) == history[CHOOSE i \in 1..Len(history) : history[i].head = h].state

\* C12 as stated: whenever Finalize succeeds, folding the returned AUMs in
\* order onto the Authority State at the session's base head applies every
\* AUM without error and yields the builder's speculative State and parent.
C12_SpeculatedEqualsCommitted ==
    (pc = "finalized" /\ err = ErrNil) =>
        FoldAUMs(ret, StateAt(base), base) =
            [err |-> ErrNil, state |-> bstate, head |-> parent]

\* C15: with a Signer configured every AUM in out carries exactly the
\* signatures the Signer returns for the SigHash of that AUM with its parent
\* link set, and a failing Signer is reported before StaticValidate is
\* consulted; with no Signer no AUM in out carries a signature and no call
\* fails in signing.
C15_SignaturesCoverChainLink ==
    [][/\ Built' =>
              /\ \A i \in 1..Len(out') :
                     out'[i].sigs = IF signer' = "nil" THEN <<>>
                                    ELSE SignAUM(SigHash(out'[i]))
              /\ signer' = "nil" => err' # "SigningFailed"
       /\ \A id \in KeyIDs, s \in SignOutcomes :
              (/\ SetKeyMeta(id, NoMeta, s)
               /\ HasKey(bstate, id)
               /\ signer # "nil"
               /\ s = "fail") => err' = "SigningFailed"]_vars

\* A signing session that has chained two signed AUMs.
C15_Witness ==
    /\ pc = "open"
    /\ signer = "signer"
    /\ Len(out) >= 2
    /\ Len(out[2].sigs) = 1

\* C16: every AUM in out is structurally valid for its kind: it carries a
\* prevHash, an AddKey AUM carries a key, RemoveKey and UpdateKey AUMs carry
\* a keyID, and an UpdateKey AUM has votes or meta (an UpdateKey with
\* neither is rejected and not appended).
C16_OutIsStructurallyValid ==
    Built =>
        \A i \in 1..Len(out) :
            /\ Len(out[i].prevHash) = 1
            /\ out[i].kind \in {"AddKey", "RemoveKey", "UpdateKey"}
            /\ out[i].kind = "AddKey" => out[i].key.present
            /\ out[i].kind # "AddKey" => out[i].keyID \in KeyIDs
            /\ out[i].kind = "UpdateKey" =>
                   (out[i].votes.present \/ out[i].meta.present)

\* SetKeyMeta with a nil map was rejected in a session that holds AUMs.
C16_Witness ==
    /\ pc = "open"
    /\ err = "StructuralInvalid"
    /\ Len(out) > 0


\* ======================================================================
\* The health registry (health/health.go)
\* ======================================================================

\* ----------------------------------------------------------------- bounds
\* RegisterWatcher is called at most MaxHandles times.
MaxHandles == 2
\* setLocked calls after which one operation's recursion is cut off.
MaxSteps == 6

\* ---------------------------------------------------------- input domains
SysOverall == "overall"
SysRouter == "router"
SysDNS == "dns"

\* The subsystems the exported setters pass to set.
SetKeys == {SysRouter, SysDNS}

\* An error made of one message.
NewErr(origin, text) == << <<origin, text>> >>

\* The errors a subsystem reports.
SetErrs(key) ==
    IF key = SysRouter
    THEN {NilErr, NewErr("", "e1"), NewErr("", "e2")}
    ELSE {NilErr, NewErr("", "e1")}

\* The state and wantRunning pairs SetIPNState is called with.
IPNStates == {<<"", FALSE>>, <<"Stopped", FALSE>>, <<"Running", TRUE>>}

\* Outcomes of the login, map poll, DERP and UDP checks that the setters of
\* the fields they read can bring about.
ConnErrs == {"none", "not in map poll"}

\* The check on the age of the last streamed map response fails once enough
\* time has passed.
IdleErr == "no map response in 2m6s"

\* Evaluation of overallErrorLocked, within one operation, from which that
\* check fails, 0 when it does not fail during the operation; it can fail
\* only when the checks before it pass.
IdleFroms(conn) == IF conn = "none" THEN {0, 1, 2} ELSE {0}

\* What checkReceiveFuncs can find missing.
MissInputs == {{}, {"ReceiveIPv6", "ReceiveDERP"}}

\* ------------------------------------------------------- overallErrorLocked
\* The error messages the aggregate can hold, in the order of their texts.
ErrorOrder ==
    << <<"ReceiveDERP", "is not running">>,
       <<"ReceiveIPv4", "is not running">>,
       <<"ReceiveIPv6", "is not running">>,
       <<SysDNS, "e1">>,
       <<SysRouter, "e1">>, <<SysRouter, "e2">> >>

\* sort.Slice by message text.
SortErrs(errs) == SelectSeq(ErrorOrder, LAMBDA m : m \in errs)

\* The outcome of the time-dependent checks at the n-th evaluation.
ConnAt(env, n) ==
    IF env.conn = "none" /\ env.idleFrom # 0 /\ n >= env.idleFrom
    THEN IdleErr
    ELSE env.conn

\* overallErrorLocked at the n-th evaluation of an operation, over the map se.
overallErrorLocked(se, env, n) ==
    IF ~env.up THEN NewErr("", "network down")
    ELSE IF ~env.want THEN NewErr("state=" , env.ipn)
    ELSE IF ConnAt(env, n) # "none" THEN NewErr("", ConnAt(env, n))
    ELSE SortErrs(
            { <<r, "is not running">> : r \in env.miss }
            \cup { <<sys, se[sys][1][2]>> :
                     sys \in { k \in DOMAIN se : se[k] # NilErr /\ k # SysOverall } })

\* ------------------------------------------------- setLocked, selfCheckLocked
\* What an operation holding mu has done so far: the map, the callbacks it
\* started, its setLocked calls, and how many times it evaluated
\* overallErrorLocked.
Begin(se) == [se |-> se, calls |-> <<>>, trace |-> <<>>, evals |-> 0]

\* What the map se knows of a subsystem: unknown, healthy or unhealthy.
StatusIn(se, key) ==
    IF key \notin DOMAIN se THEN "unknown"
    ELSE IF se[key] = NilErr THEN "healthy"
    ELSE "unhealthy"

\* The registered handles, in the order the range over watchers visits them.
WatcherSeq(ws) == SelectSeq([i \in 1..handles |-> i], LAMBDA h : h \in ws)

\* sysErr[key] = err
Store(st, key, e) ==
    [st EXCEPT !.se = [k \in DOMAIN st.se \cup {key} |->
                          IF k = key THEN e ELSE st.se[k]]]

\* The first branch never taken: unknown to healthy is a change like any other.
FirstHealthyNever(ok, e) == FALSE

\* !ok && err == nil: the subsystem was unknown and is now healthy.
FirstHealthy(ok, e) ==
    ~ok /\ e = NilErr

\* The second branch never taken: every call is a status change.
NoChangeNever(ok, old, e) == FALSE

\* ok && (old == nil) == (err == nil): no change in overall error status.
NoChange(ok, old, e) ==
    ok /\ ((old = NilErr) <=> (e = NilErr))

\* The no-change branch without its update of the stored error.
KeepErrDropped(st, key, e) == st

\* if err != nil { sysErr[key] = err }: the error may have changed.
KeepErr(st, key, e) ==
    IF e # NilErr THEN Store(st, key, e) ELSE st

\* for _, cb := range watchers { go cb(key, err) }
StartWatchers(st, ws, key, e) ==
    [st EXCEPT !.calls = @ \o [i \in 1..Len(WatcherSeq(ws)) |->
                                  <<WatcherSeq(ws)[i], key, e>>]]

RECURSIVE setLocked(_, _, _, _, _)

\* selfCheckLocked without the test of ipnState.
selfCheckUnguarded(st, env, ws) ==
    setLocked([st EXCEPT !.evals = @ + 1], env, ws, SysOverall,
              overallErrorLocked(st.se, env, st.evals + 1))

selfCheckLocked(st, env, ws) ==
    IF env.ipn = ""
    THEN st
    ELSE setLocked([st EXCEPT !.evals = @ + 1], env, ws, SysOverall,
                   overallErrorLocked(st.se, env, st.evals + 1))

setLocked(st0, env, ws, key, e) ==
    LET st == [st0 EXCEPT !.trace = Append(@, <<key, e, StatusIn(st0.se, key)>>)]
        ok == key \in DOMAIN st0.se
        old == IF ok THEN st0.se[key] ELSE NilErr
    IN  IF Len(st0.trace) >= MaxSteps THEN st
        ELSE IF FirstHealthy(ok, e)
        THEN selfCheckLocked(Store(st, key, NilErr), env, ws)
        ELSE IF NoChange(ok, old, e)
        THEN KeepErr(st, key, e)
        ELSE StartWatchers(selfCheckLocked(Store(st, key, e), env, ws), ws, key, e)

\* get: the zero value, nil, for a subsystem with no entry.
get(key) == IF key \in DOMAIN sysErr THEN sysErr[key] ELSE NilErr

\* ------------------------------------------------------------- operations
\* The fields overallErrorLocked reads, as the running operation sees them.
CurEnv(idleFrom) ==
    [up |-> anyInterfaceUp, ipn |-> ipnState, want |-> ipnWantRunning,
     conn |-> connErr, miss |-> recvMissing,
     idleFrom |-> idleFrom]

\* The operation releases mu: what it did is what the package now holds.
Unlock(st, env) ==
    /\ sysErr' = st.se
    /\ started' = st.calls
    /\ trace' = st.trace
    /\ connErr' = ConnAt(env, st.evals)
    /\ anyInterfaceUp' = env.up
    /\ ipnState' = env.ipn
    /\ ipnWantRunning' = env.want
    /\ recvMissing' = env.miss
    /\ ipnEverSet' = (ipnEverSet \/ env.ipn # "")

\* An operation that neither calls setLocked nor starts a callback.
Quiet ==
    /\ started' = <<>>
    /\ trace' = <<>>

RegisterWatcher ==
    /\ handles < MaxHandles
    /\ handles' = handles + 1
    /\ watchers' = watchers \cup {handles + 1}
    /\ timer' = TRUE
    /\ Quiet
    /\ UNCHANGED <<sysErr, timerFired, anyInterfaceUp, ipnState, ipnWantRunning,
                   connErr, recvMissing, ipnEverSet>>
    /\ UNCHANGED tkaVars

\* The unregister func that leaves the timer running.
unregisterKeepsTimer(h) ==
    /\ h \in 1..handles
    /\ watchers' = watchers \ {h}
    /\ timer' = timer
    /\ Quiet
    /\ UNCHANGED <<sysErr, handles, timerFired, anyInterfaceUp, ipnState,
                   ipnWantRunning, connErr, recvMissing, ipnEverSet>>
    /\ UNCHANGED tkaVars

\* The func RegisterWatcher returned for handle h; it may be called again.
unregister(h) ==
    /\ h \in 1..handles
    /\ watchers' = watchers \ {h}
    /\ timer' = IF watchers' = {} /\ timer THEN FALSE ELSE timer
    /\ Quiet
    /\ UNCHANGED <<sysErr, handles, timerFired, anyInterfaceUp, ipnState,
                   ipnWantRunning, connErr, recvMissing, ipnEverSet>>
    /\ UNCHANGED tkaVars

\* SetRouterHealth, SetDNSHealth and the other setters of one subsystem.
set(key, e, idleFrom) ==
    /\ Unlock(setLocked(Begin(sysErr), CurEnv(idleFrom), watchers, key, e),
              CurEnv(idleFrom))
    /\ UNCHANGED <<watchers, timer, handles, timerFired>>
    /\ UNCHANGED tkaVars

\* GotStreamedMapResponse and the other setters of the fields that the login,
\* map poll, DERP and UDP checks read, which end with selfCheckLocked.
GotStreamedMapResponse(c, idleFrom) ==
    LET env == [CurEnv(idleFrom) EXCEPT !.conn = c]
    IN  /\ Unlock(selfCheckLocked(Begin(sysErr), env, watchers), env)
        /\ UNCHANGED <<watchers, timer, handles, timerFired>>
        /\ UNCHANGED tkaVars

\* SetInPollNetMap and SetAuthRoutineInError: they set such a field and return.
SetInPollNetMap(c) ==
    /\ connErr' = c
    /\ Quiet
    /\ UNCHANGED <<sysErr, watchers, timer, handles, timerFired, anyInterfaceUp,
                   ipnState, ipnWantRunning, recvMissing, ipnEverSet>>
    /\ UNCHANGED tkaVars

SetIPNState(state, wantRunning, idleFrom) ==
    LET env == [CurEnv(idleFrom) EXCEPT !.ipn = state, !.want = wantRunning]
    IN  /\ Unlock(selfCheckLocked(Begin(sysErr), env, watchers), env)
        /\ UNCHANGED <<watchers, timer, handles, timerFired>>
        /\ UNCHANGED tkaVars

SetAnyInterfaceUp(up, idleFrom) ==
    LET env == [CurEnv(idleFrom) EXCEPT !.up = up]
    IN  /\ Unlock(selfCheckLocked(Begin(sysErr), env, watchers), env)
        /\ UNCHANGED <<watchers, timer, handles, timerFired>>
        /\ UNCHANGED tkaVars

\* The timer expires and starts timerSelfCheck in its own goroutine; one such
\* call is outstanding at a time.
TimerExpire ==
    /\ timer
    /\ ~timerFired
    /\ timerFired' = TRUE
    /\ Quiet
    /\ UNCHANGED <<sysErr, watchers, timer, handles, anyInterfaceUp, ipnState,
                   ipnWantRunning, connErr, recvMissing, ipnEverSet>>
    /\ UNCHANGED tkaVars

\* timerSelfCheck; miss is what checkReceiveFuncs finds. Reset leaves a
\* non-nil timer non-nil.
timerSelfCheck(miss, idleFrom) ==
    LET env == [CurEnv(idleFrom) EXCEPT !.miss = miss]
    IN  /\ timerFired
        /\ timerFired' = FALSE
        /\ Unlock(selfCheckLocked(Begin(sysErr), env, watchers), env)
        /\ UNCHANGED <<watchers, timer, handles>>
        /\ UNCHANGED tkaVars

NextHealth ==
    \/ RegisterWatcher
    \/ \E h \in 1..MaxHandles : unregister(h)
    \/ \E k \in SetKeys, i \in IdleFroms(connErr) : \E e \in SetErrs(k) : set(k, e, i)
    \/ \E c \in ConnErrs : \E i \in IdleFroms(c) : GotStreamedMapResponse(c, i)
    \/ \E c \in ConnErrs : SetInPollNetMap(c)
    \/ \E s \in IPNStates, i \in IdleFroms(connErr) : SetIPNState(s[1], s[2], i)
    \/ \E up \in BOOLEAN, i \in IdleFroms(connErr) : SetAnyInterfaceUp(up, i)
    \/ TimerExpire
    \/ \E m \in MissInputs, i \in IdleFroms(connErr) : timerSelfCheck(m, i)

SpecHealth == Init /\ [][NextHealth]_vars

\* The registry is as the package's types say.
HealthTypeOK ==
    /\ DOMAIN sysErr \subseteq SetKeys \cup {SysOverall}
    /\ watchers \subseteq 1..handles
    /\ handles \in 0..MaxHandles
    /\ timer \in BOOLEAN
    /\ Len(trace) \in 0..(MaxSteps + 1)

\* ------------------------------------------------------ health properties
\* The calls of a sequence of started callbacks that are about key.
CallsAbout(calls, key) == SelectSeq(calls, LAMBDA c : c[2] = key)

\* One call of every registered watcher with key and e.
OneCallEach(key, e) ==
    [i \in 1..Len(WatcherSeq(watchers)) |-> <<WatcherSeq(watchers)[i], key, e>>]

\* How many times x occurs in the sequence q.
Count(q, x) == Cardinality({ i \in 1..Len(q) : q[i] = x })

\* A status change that watchers are to see: to unhealthy from unknown or
\* healthy, or from unhealthy to healthy.
StatusChange(old, e) ==
    \/ e # NilErr /\ old \in {"unknown", "healthy"}
    \/ e = NilErr /\ old = "unhealthy"

\* The last operation was a set call: only set passes setLocked a subsystem
\* other than SysOverall, in its first call.
LastWasSet == trace # <<>> /\ trace[1][1] \in SetKeys

\* The status changes among the last operation's setLocked calls, as
\* <<key, err>>.
Changes ==
    [i \in 1..Len(SelectSeq(trace, LAMBDA t : StatusChange(t[3], t[2]))) |->
        <<SelectSeq(trace, LAMBDA t : StatusChange(t[3], t[2]))[i][1],
          SelectSeq(trace, LAMBDA t : StatusChange(t[3], t[2]))[i][2]>>]

\* C14: a set call starts every registered watcher once, with the subsystem
\* and the error passed, when it moves the subsystem to unhealthy (from
\* unknown or from healthy) or from unhealthy to healthy; it starts no
\* watcher for that subsystem when it moves it from unknown to healthy or
\* leaves its nil versus non-nil status as it was.
C14_WatchersSeeStatusChanges ==
    LastWasSet =>
        CallsAbout(started, trace[1][1]) =
            IF StatusChange(trace[1][3], trace[1][2])
            THEN OneCallEach(trace[1][1], trace[1][2])
            ELSE <<>>

\* C14 witness: every one of two registered watchers was started for the
\* router's recovery, its move from unhealthy to healthy.
C14_Witness ==
    /\ Cardinality(watchers) = 2
    /\ LastWasSet
    /\ trace[1] = <<SysRouter, NilErr, "unhealthy">>
    /\ CallsAbout(started, SysRouter) = OneCallEach(SysRouter, NilErr)

\* C14 witness of the silent cases: with a watcher registered, a set call
\* moved the router from unknown to healthy and started nothing.
C14_WitnessSilent ==
    /\ watchers # {}
    /\ LastWasSet
    /\ trace[1] = <<SysRouter, NilErr, "unknown">>
    /\ started = <<>>

\* C17: after a set call get returns, for that subsystem, the error the call
\* passed, in every branch of setLocked: also when the subsystem was
\* unhealthy and stays unhealthy with another error.
C17_GetReturnsLastSet ==
    LastWasSet =>
        /\ trace[1][1] \in DOMAIN sysErr
        /\ get(trace[1][1]) = trace[1][2]

\* C17 witness: a set call passed the second error for a router that was
\* already unhealthy, the only setLocked call of the operation, and get
\* returns the second.
C17_Witness ==
    /\ LastWasSet
    /\ trace = << <<SysRouter, NewErr("", "e2"), "unhealthy">> >>
    /\ get(SysRouter) = NewErr("", "e2")

\* C18: while SetIPNState has never been called with a non-empty state the
\* map has no SysOverall entry and no watcher is started with SysOverall.
C18_NoOverallBeforeIPNState ==
    ~ipnEverSet =>
        /\ SysOverall \notin DOMAIN sysErr
        /\ CallsAbout(started, SysOverall) = <<>>

\* C18 witness: before any ipn state is set, with the timer's self check
\* having run, a watcher is started for a subsystem that became unhealthy.
C18_Witness ==
    /\ ~ipnEverSet
    /\ recvMissing # {}
    /\ started # <<>>

\* C19: the timer is non-nil exactly when a watcher is registered, whatever
\* the interleaving of RegisterWatcher, unregister calls (repeated ones too)
\* and timer firings; and the callbacks an operation starts are those of the
\* watchers registered then, never one that was unregistered.
C19_TimerIffWatchers ==
    /\ timer <=> watchers # {}
    /\ \A i \in 1..Len(started) : started[i][1] \in watchers

\* C19 witness: the first watcher is unregistered and the second is not, the
\* timer has fired, and the last status change started the second only.
C19_Witness ==
    /\ handles = 2
    /\ watchers = {2}
    /\ timerFired
    /\ started # <<>>

\* C20: no operation's recursion through setLocked and selfCheckLocked is
\* cut off: it makes at most four setLocked calls. The overall error is the
\* same whatever the SysOverall entry holds, and every registered watcher is
\* started exactly once for every status change the operation made.
C20_SettersTerminate ==
    /\ Len(trace) <= 4
    /\ Len(trace) <= MaxSteps
    /\ \A e \in {NilErr, NewErr("", "e1")} :
          overallErrorLocked(Store(Begin(sysErr), SysOverall, e).se, CurEnv(0), 1)
              = overallErrorLocked(sysErr, CurEnv(0), 1)
    /\ \A i \in 1..Len(started) :
          Count(started, started[i]) = Count(Changes, <<started[i][2], started[i][3]>>)
    /\ \A i \in 1..Len(Changes), h \in watchers :
          Count(started, <<h, Changes[i][1], Changes[i][2]>>) = Count(Changes, Changes[i])

\* C20 witness: an operation made four setLocked calls, time passing between
\* its two evaluations of the overall error, and started a watcher twice for
\* SysOverall, once for each of its two status changes.
C20_Witness ==
    /\ Len(trace) = 4
    /\ Len(Changes) >= 2
    /\ Len(CallsAbout(started, SysOverall)) >= 2

====
